---- MODULE Spec2Model ----
(***************************************************************************)
(* Model of piifilescanner (src/main.py): the detectors (the two compiled  *)
(* regular expressions and luhn_checksum), the extraction client           *)
(* content_scan, the scan orchestrator main_file_scan_interface with its   *)
(* ThreadPoolExecutor / as_completed fan-out and fan-in, the directory     *)
(* walker scan_directory_for_files and the __main__ block.                 *)
(*                                                                         *)
(* A Python str is a sequence of one-character strings. A character       *)
(* outside ASCII is written by its code point, "U+0661" for ARABIC-INDIC   *)
(* DIGIT ONE, and is one character of the text.                            *)
(***************************************************************************)
EXTENDS Integers, Sequences, FiniteSets, TLC

VARIABLES
    \* the environment of one run of main_file_scan_interface
    tree_files,        \* the files under scan_dir
    service,           \* what parser.from_file does for each file
    deadline_passed,   \* the 180 s given to as_completed have elapsed
    \* main_file_scan_interface
    pc,                \* where the function is
    file_paths,        \* the list scan_directory_for_files returned
    file_paths_dict,   \* path -> {scanned, credit_card_found, social_security_found}
    flagged_files_report_dict,
    file_scan_jobs,    \* path -> the state of the future submitted for it
    yielded,           \* the paths whose future as_completed has yielded
    exc,               \* the exception leaving the function, "None" if none
    max_workers,       \* the size of the executor's pool, 0 while there is no executor
    \* the detectors, called on their own
    sanitized_value,   \* luhn_checksum: the argument
    luhn_called,       \* luhn_checksum: has returned
    luhn_ret,          \* luhn_checksum: the returned bool
    extracted_text,    \* the detectors: the extracted text they are run on
    scan_called,       \* the detectors: lines 81-94 have run on the text
    found,             \* the detectors: the file_info they left
    grown,             \* number of characters added to a harness input
    \* the command line program (the __main__ block)
    scan_directory,    \* the positional argument
    output_directory,  \* the -o argument, the current directory by default
    main_pc,           \* where the program is
    exit_status,       \* the exit status of the process, -1 while it runs
    emitted,           \* the messages written to stdout and stderr, in order
    report_file,       \* the report file in the output directory
    \* scan_directory_for_files, called on a tree of its own
    tree,              \* directory path -> the sub-directories and files it lists
    walk_stack,        \* os.walk: the directories still to be visited
    return_files_list, \* the list being built
    walk_pc            \* where the walk is

env_vars == <<tree_files, service, deadline_passed>>
scan_vars == <<pc, file_paths, file_paths_dict, flagged_files_report_dict,
               file_scan_jobs, yielded, exc, max_workers>>
luhn_vars == <<sanitized_value, luhn_called, luhn_ret>>
detect_vars == <<extracted_text, scan_called, found>>
main_vars == <<scan_directory, output_directory, main_pc, exit_status, emitted,
               report_file>>
walk_vars == <<tree, walk_stack, return_files_list, walk_pc>>
outer_vars == <<main_vars, walk_vars>>
harness_vars == <<luhn_vars, detect_vars, grown, outer_vars>>
vars == <<env_vars, scan_vars, harness_vars>>

\* ------------------------------------------------------------- bounds

\* Digits appended to a seed string before luhn_checksum is called.
MaxLuhnDigits == 3

\* Characters put before or after a seed text before the detectors run on it.
MaxGrow == 2

\* Files in the scanned tree.
MaxFiles == 2

\* Files in the tree on which the worker pool is exercised: more than the
\* smallest pool has workers.
MaxPoolFiles == 6

\* ------------------------------------------------------------- characters

DigitChars == <<"0", "1", "2", "3", "4", "5", "6", "7", "8", "9">>

\* [0-9]: the ASCII digits.
AsciiDigit == {DigitChars[i] : i \in 1..10}

\* Decimal digits outside ASCII with their values: ARABIC-INDIC DIGIT ONE and
\* ARABIC-INDIC DIGIT NINE.
NonAsciiDigitValue == [c \in {"U+0661", "U+0669"} |-> IF c = "U+0661" THEN 1 ELSE 9]

\* \d of a str pattern: every Unicode decimal digit.
Digit == AsciiDigit \cup DOMAIN NonAsciiDigitValue

\* int(dig) for one digit character; int accepts every Unicode decimal digit.
IntOfDigit(c) ==
    IF c \in DOMAIN NonAsciiDigitValue
    THEN NonAsciiDigitValue[c]
    ELSE (CHOOSE i \in 1..10 : DigitChars[i] = c) - 1

\* sum() of a list of ints: the first n elements, then all of them.
RECURSIVE SumFirst(_, _)
SumFirst(s, n) == IF n = 0 THEN 0 ELSE SumFirst(s, n - 1) + s[n]

SumSeq(s) == SumFirst(s, Len(s))

\* ------------------------------------------------------------- luhn_checksum

\* digits_of(n): [int(dig) for dig in str(n)], n a str of digits.
digits_of(n) == [i \in 1..Len(n) |-> IntOfDigit(n[i])]

\* str(d * 2) for a digit d, as digit characters (d * 2 is in 0..18).
StrOfInt(n) ==
    IF n < 10 THEN <<DigitChars[n + 1]>>
    ELSE <<DigitChars[(n \div 10) + 1], DigitChars[(n % 10) + 1]>>

\* digits[start::-2] for start = -1 or -2: walk from Len + 1 + start down to 1
\* in steps of two.
SliceBackByTwo(digits, start) ==
    LET first == Len(digits) + 1 + start
        count == IF first < 1 THEN 0 ELSE ((first - 1) \div 2) + 1
    IN  [k \in 1..count |-> digits[first - 2 * (k - 1)]]

\* The for loop of lines 30-31: checksum after the first n of even_digits.
RECURSIVE AddDoubled(_, _, _)
AddDoubled(checksum, even_digits, n) ==
    IF n = 0 THEN checksum
    ELSE AddDoubled(checksum, even_digits, n - 1)
             + SumSeq(digits_of(StrOfInt(even_digits[n] * 2)))

\* Mutant: the doubled value is added raw, its digits are not summed.
luhn_checksum_raw_double(value) ==
    LET digits == digits_of(value)
        odd_digits == SliceBackByTwo(digits, -1)
        even_digits == SliceBackByTwo(digits, -2)
    IN  (SumSeq(odd_digits) + 2 * SumSeq(even_digits)) % 10 = 0

luhn_checksum(value) ==
    LET digits == digits_of(value)
        odd_digits == SliceBackByTwo(digits, -1)
        even_digits == SliceBackByTwo(digits, -2)
        checksum == SumSeq(odd_digits)
    IN  AddDoubled(checksum, even_digits, Len(even_digits)) % 10 = 0

\* ------------------------------------------------------------- regular expressions

\* The letters: the ASCII ones and, of those outside ASCII, LATIN SMALL
\* LETTER E WITH ACUTE and LATIN SMALL LETTER SHARP S.
Letter ==
    {"a", "b", "c", "d", "e", "f", "g", "h", "i", "j", "k", "l", "m",
     "n", "o", "p", "q", "r", "s", "t", "u", "v", "w", "x", "y", "z",
     "A", "B", "C", "D", "E", "F", "G", "H", "I", "J", "K", "L", "M",
     "N", "O", "P", "Q", "R", "S", "T", "U", "V", "W", "X", "Y", "Z",
     "U+00E9", "U+00DF"}

\* Alphanumeric characters that are neither letters nor decimal digits:
\* SUPERSCRIPT TWO.
OtherAlnum == {"U+00B2"}

\* \w of a str pattern: the Unicode alphanumerics and the underscore.
WordChars == Digit \cup Letter \cup OtherAlnum \cup {"_"}
IsWordChar(c) == c \in WordChars

\* The character at index i (1-based), "" outside the text.
CharAt(text, i) == IF i \in 1..Len(text) THEN text[i] ELSE ""

\* \b just before index i: exactly one of the two neighbours is a word
\* character (the outside of the text counts as a non-word character).
WordBoundaryAt(text, i) ==
    IsWordChar(CharAt(text, i - 1)) # IsWordChar(CharAt(text, i))

\* \d{n} at index i.
DigitsAt(text, i, n) == \A k \in 0..(n - 1) : CharAt(text, i + k) \in Digit

\* [0-9]{n} at index i.
AsciiDigitsAt(text, i, n) == \A k \in 0..(n - 1) : CharAt(text, i + k) \in AsciiDigit

\* [- .] of social_security_regex.
SsnSeparator == {"-", " ", "."}

\* [- ] of weak_credit_card_regex.
CardSeparator == {"-", " "}

\* Mutant: the trailing \b of social_security_regex is missing.
SsnMatchAtNoTrailingBoundary(text, i) ==
    /\ WordBoundaryAt(text, i)
    /\ AsciiDigitsAt(text, i, 3)
    /\ CharAt(text, i + 3) \in SsnSeparator
    /\ AsciiDigitsAt(text, i + 4, 2)
    /\ CharAt(text, i + 6) \in SsnSeparator
    /\ AsciiDigitsAt(text, i + 7, 4)

\* social_security_regex matches at index i:
\* \b([0-9]{3})[- .]([0-9]{2})[- .]([0-9]{4})\b
SsnMatchAt(text, i) ==
    /\ WordBoundaryAt(text, i)
    /\ AsciiDigitsAt(text, i, 3)
    /\ CharAt(text, i + 3) \in SsnSeparator
    /\ AsciiDigitsAt(text, i + 4, 2)
    /\ CharAt(text, i + 6) \in SsnSeparator
    /\ AsciiDigitsAt(text, i + 7, 4)
    /\ WordBoundaryAt(text, i + 11)

\* social_security_regex.search(text) is not None.
social_security_search(text) == \E i \in 1..Len(text) : SsnMatchAt(text, i)

\* The first group of weak_credit_card_regex at index i:
\* (4\d{3})|(5[0-5]\d{2})|(6\d{3})|(1\d{3})|(3\d{3})
CardPrefixAt(text, i) ==
    \/ CharAt(text, i) = "4" /\ DigitsAt(text, i + 1, 3)
    \/ /\ CharAt(text, i) = "5"
       /\ CharAt(text, i + 1) \in {"0", "1", "2", "3", "4", "5"}
       /\ DigitsAt(text, i + 2, 2)
    \/ CharAt(text, i) = "6" /\ DigitsAt(text, i + 1, 3)
    \/ CharAt(text, i) = "1" /\ DigitsAt(text, i + 1, 3)
    \/ CharAt(text, i) = "3" /\ DigitsAt(text, i + 1, 3)

\* The choices the matcher makes after the first group, in the order the
\* backtracking matcher tries them: each [- ]? first with a separator, then
\* without; \d{3,4} first 4 then 3; \d{3,5} first 5, then 4, then 3. The
\* earliest choice is the most significant.
CardChoices ==
    [n \in 1..96 |->
        LET k == n - 1
        IN  [s1 |-> 1 - (k \div 48),
             g2 |-> 4 - ((k \div 24) % 2),
             s2 |-> 1 - ((k \div 12) % 2),
             g3 |-> 4 - ((k \div 6) % 2),
             s3 |-> 1 - ((k \div 3) % 2),
             g4 |-> 5 - (k % 3)]]

\* An optional separator at index i: present (s = 1) or skipped (s = 0).
OptionalSeparatorAt(text, i, s) == s = 1 => CharAt(text, i) \in CardSeparator

\* The index just after a match that starts at i and makes the choices c.
CardEnd(i, c) == i + 4 + c.s1 + c.g2 + c.s2 + c.g3 + c.s3 + c.g4

\* What follows the first group, for a match that starts at i with the
\* choices c: [- ]?(\d{3,4})[- ]?(\d{3,4})[- ]?(\d{3,5})\b
CardRestAt(text, i, c) ==
    LET p2 == i + 4 + c.s1
        p3 == p2 + c.g2 + c.s2
        p4 == p3 + c.g3 + c.s3
    IN  /\ OptionalSeparatorAt(text, i + 4, c.s1)
        /\ DigitsAt(text, p2, c.g2)
        /\ OptionalSeparatorAt(text, p2 + c.g2, c.s2)
        /\ DigitsAt(text, p3, c.g3)
        /\ OptionalSeparatorAt(text, p3 + c.g3, c.s3)
        /\ DigitsAt(text, p4, c.g4)
        /\ WordBoundaryAt(text, CardEnd(i, c))

\* The match object of a search that found nothing (None).
NoMatch == [matched |-> FALSE, group0 |-> <<>>]

\* weak_credit_card_regex.match at index i: the first choices that succeed,
\* group0 being the match object's [0].
CardMatchAt(text, i) ==
    IF ~(WordBoundaryAt(text, i) /\ CardPrefixAt(text, i)) THEN NoMatch
    ELSE LET ok == {n \in 1..96 : CardRestAt(text, i, CardChoices[n])}
         IN  IF ok = {} THEN NoMatch
             ELSE LET n == CHOOSE a \in ok : \A b \in ok : a <= b
                  IN  [matched |-> TRUE,
                       group0 |-> SubSeq(text, i, CardEnd(i, CardChoices[n]) - 1)]

\* weak_credit_card_regex.search(text): the match at the leftmost index that
\* has one, scanning from index i.
RECURSIVE CardSearchFrom(_, _)
CardSearchFrom(text, i) ==
    IF i > Len(text) THEN NoMatch
    ELSE LET m == CardMatchAt(text, i)
         IN  IF m.matched THEN m ELSE CardSearchFrom(text, i + 1)

weak_credit_card_search(text) == CardSearchFrom(text, 1)

\* str.replace(old, "") for a one-character old.
Remove(s, old) == SelectSeq(s, LAMBDA c : c # old)

\* old in s, for a one-character old.
Contains(s, old) == \E i \in 1..Len(s) : s[i] = old

\* Lines 88-91: the separators are taken out of the candidate.
SanitizeCandidate(possible_cc_number) ==
    LET no_dash == IF Contains(possible_cc_number, "-")
                   THEN Remove(possible_cc_number, "-")
                   ELSE possible_cc_number
    IN  IF Contains(no_dash, " ") THEN Remove(no_dash, " ") ELSE no_dash

\* ------------------------------------------------------------- file content

\* The content the extraction service hands back: a str, bytes, or None.
Str(chars) == [type |-> "str", chars |-> chars]
Bytes(chars) == [type |-> "bytes", chars |-> chars]
None == [type |-> "NoneType", chars |-> <<>>]

\* Python truthiness of a content value.
Truthy(content) == content.type # "NoneType" /\ content.chars # <<>>

\* A compiled str pattern searching anything but a str raises TypeError.
SearchRaises(file_content) == file_content.type # "str"

\* Lines 83-85: the search that sets social_security_found.
DetectSocialSecurity(file_content) == social_security_search(file_content.chars)

\* Mutant: any candidate in the text that passes the checksum counts.
DetectCreditCardAnyCandidate(file_content) ==
    \E i \in 1..Len(file_content.chars) :
        /\ CardMatchAt(file_content.chars, i).matched
        /\ luhn_checksum(SanitizeCandidate(CardMatchAt(file_content.chars, i).group0))

\* Lines 86-94: the search and checksum that set credit_card_found.
DetectCreditCard(file_content) ==
    LET weak_credit_card_match_obj == weak_credit_card_search(file_content.chars)
    IN  /\ weak_credit_card_match_obj.matched
        /\ luhn_checksum(SanitizeCandidate(weak_credit_card_match_obj.group0))

\* ------------------------------------------------------------- sample strings

RECURSIVE Repeat(_, _)
Repeat(s, n) == IF n = 0 THEN <<>> ELSE s \o Repeat(s, n - 1)

Card4111Valid == <<"4">> \o Repeat(<<"1">>, 15)
Card4111Invalid == <<"4">> \o Repeat(<<"1">>, 14) \o <<"2">>

LuhnSeeds == {<<>>, Card4111Valid, Card4111Invalid}

\* "SSN: 123-45-6789"
SsnText ==
    <<"S", "S", "N", ":", " ", "1", "2", "3", "-", "4", "5", "-", "6", "7",
      "8", "9">>

\* "4111-1111-1111-1111": card-like and Luhn-valid
CardValidText ==
    <<"4", "1", "1", "1", "-", "1", "1", "1", "1", "-", "1", "1", "1", "1",
      "-", "1", "1", "1", "1">>

\* "4111-1111-1111-1112": card-like but Luhn-invalid
CardInvalidText ==
    <<"4", "1", "1", "1", "-", "1", "1", "1", "1", "-", "1", "1", "1", "1",
      "-", "1", "1", "1", "2">>

\* "plain prose"
ProseText ==
    <<"p", "l", "a", "i", "n", " ", "p", "r", "o", "s", "e">>

\* ------------------------------------------------------------- content_scan

\* What parser.from_file(file_path) does: it returns a dict with a status and
\* a content, raises an exception, or never returns.
Response(status, content) == [kind |-> "returns", status |-> status, content |-> content]
Raises == [kind |-> "raises", status |-> 0, content |-> None]
Hangs == [kind |-> "hangs", status |-> 0, content |-> None]

ServiceOutcomes ==
    {Response(200, Str(SsnText)),
     Response(200, Str(CardValidText)),
     Response(200, Str(CardInvalidText)),
     Response(200, Str(ProseText)),
     Response(200, None),
     Response(200, Bytes(SsnText)),
     Response(204, None),
     Response(204, Str(SsnText)),
     Response(500, None),
     Response(500, Str(SsnText)),
     Raises,
     Hangs}

\* Lines 52-56: the status the response code alone gives.
StatusFromCode(status) ==
    IF status # 200
    THEN IF status = 204 THEN "N" ELSE "NA"
    ELSE "Y"

\* content_scan(file_path) for a call of parser.from_file that comes back:
\* the pair (parse_status, parsed_content) it returns.
content_scan(outcome) ==
    IF outcome.kind = "raises"
    THEN [parse_status |-> "NA", parsed_content |-> Str(<<>>)]
    ELSE LET parsed_content == outcome.content
         IN  [parse_status |-> IF ~Truthy(parsed_content) THEN "N"
                               ELSE StatusFromCode(outcome.status),
              parsed_content |-> parsed_content]

\* ------------------------------------------------------------- main_file_scan_interface

PathNames == <<"a.txt", "b.txt", "c.txt", "d.txt", "e.txt", "f.txt", "g.txt", "h.txt">>
Paths == {PathNames[i] : i \in 1..MaxFiles}

\* The lists over a set of paths, each path once: the orders os.walk may
\* enumerate the files in.
Orderings(S) ==
    {q \in [1..Cardinality(S) -> S] : \A i, j \in 1..Cardinality(S) : q[i] = q[j] => i = j}

EmptyDict == [p \in {} |-> 0]

\* Line 66: the record every path starts with.
NewFileInfo == [scanned |-> "", credit_card_found |-> FALSE, social_security_found |-> FALSE]

\* Line 69: ThreadPoolExecutor() has min(32, cpu_count + 4) worker threads.
CpuCounts == {1, 4}
PoolSizes == {IF c + 4 < 32 THEN c + 4 ELSE 32 : c \in CpuCounts}

\* A future of the executor.
PendingFuture == [state |-> "PENDING", parse_status |-> "", parsed_content |-> None]

Unyielded == DOMAIN file_scan_jobs \ yielded
Running == {p \in DOMAIN file_scan_jobs : file_scan_jobs[p].state = "RUNNING"}
Finished == {p \in DOMAIN file_scan_jobs : file_scan_jobs[p].state = "FINISHED"}

\* Does the loop body raise? Only a search can (lines 83, 86), and only when
\* the status is "Y". Nothing in the body catches it.
LoopBodyRaisesOnFailed(content_scan_status, file_content) ==
    \/ content_scan_status = "NA"
    \/ content_scan_status = "Y" /\ SearchRaises(file_content)

LoopBodyRaises(content_scan_status, file_content) ==
    content_scan_status = "Y" /\ SearchRaises(file_content)

\* Lines 83-94: what the two detectors find in an extracted text.
Findings(file_content) ==
    [credit_card_found |-> DetectCreditCard(file_content),
     social_security_found |-> DetectSocialSecurity(file_content)]

\* The detectors were not run.
NoFindings == [credit_card_found |-> FALSE, social_security_found |-> FALSE]

\* The str contents the extraction service can hand back.
ServiceTexts ==
    {o.content : o \in {x \in ServiceOutcomes : x.content.type = "str"}}

\* Findings of every text the service can hand back, computed once.
FindingsOfServiceText == [c \in ServiceTexts |-> Findings(c)]

\* Lines 80-94: file_info after the iteration; findings is what the detectors
\* find in the text, consulted only when the status is "Y".
FileInfoAfter(content_scan_status, findings) ==
    [scanned |-> content_scan_status,
     credit_card_found |->
         content_scan_status = "Y" /\ findings.credit_card_found,
     social_security_found |->
         content_scan_status = "Y" /\ findings.social_security_found]

\* Mutant: flag_file is set for every file the loop handles.
FlagAfterAnyScan(file_info) == TRUE

\* Lines 73, 85, 94: flag_file after the detection.
FlagAfter(file_info) ==
    file_info.social_security_found \/ file_info.credit_card_found

\* Mutant: the two values of a report entry change places.
ReportEntrySwapped(file_info) ==
    [credit_card_found |-> IF file_info.social_security_found THEN "Yes" ELSE "No",
     social_security_found |-> IF file_info.credit_card_found THEN "Yes" ELSE "No"]

\* Lines 96-99: the report entry of a flagged file.
ReportEntry(file_info) ==
    [credit_card_found |-> IF file_info.credit_card_found THEN "Yes" ELSE "No",
     social_security_found |-> IF file_info.social_security_found THEN "Yes" ELSE "No"]

\* Mutant: every file whose text was extracted is reported.
ReportAfterExtracted(report, file_path, flag, file_info) ==
    IF file_info.scanned = "Y"
    THEN [q \in DOMAIN report \cup {file_path} |->
             IF q = file_path THEN ReportEntry(file_info) ELSE report[q]]
    ELSE report

\* Mutant: a flagged file replaces the report instead of joining it.
ReportAfterOverwrite(report, file_path, flag, file_info) ==
    IF flag
    THEN [q \in {file_path} |-> ReportEntry(file_info)]
    ELSE report

\* Lines 95-99.
ReportAfter(report, file_path, flag, file_info) ==
    IF flag
    THEN [q \in DOMAIN report \cup {file_path} |->
             IF q = file_path THEN ReportEntry(file_info) ELSE report[q]]
    ELSE report

\* luhn_checksum is not being called.
LuhnIdle ==
    /\ sanitized_value = <<>>
    /\ luhn_called = FALSE
    /\ luhn_ret = FALSE

\* The detectors are not being run on a text of their own.
DetectIdle ==
    /\ extracted_text = <<>>
    /\ scan_called = FALSE
    /\ found = NewFileInfo

\* scan_directory_for_files is not being called on a tree of its own.
WalkIdle ==
    /\ tree = EmptyDict
    /\ walk_stack = <<>>
    /\ return_files_list = <<>>
    /\ walk_pc = "idle"

\* The program of the __main__ block is not running: main_file_scan_interface
\* and the detectors are called directly.
MainIdle ==
    /\ scan_directory = "dir"
    /\ output_directory = "cwd"
    /\ main_pc = "idle"
    /\ exit_status = -1
    /\ emitted = <<>>
    /\ report_file = [state |-> "none", content |-> EmptyDict]

\* Nothing of a run has happened: the state before main_file_scan_interface
\* is called, and the state of the scan while a detector is called on its own.
ScanFresh ==
    /\ pc = "start"
    /\ file_paths = <<>>
    /\ file_paths_dict = EmptyDict
    /\ flagged_files_report_dict = EmptyDict
    /\ file_scan_jobs = EmptyDict
    /\ yielded = {}
    /\ exc = "None"
    /\ max_workers = 0
    /\ deadline_passed = FALSE

ScanIdle ==
    /\ tree_files = {}
    /\ service = EmptyDict
    /\ ScanFresh

Init ==
    /\ tree_files \in SUBSET Paths
    /\ service \in [tree_files -> ServiceOutcomes]
    /\ ScanFresh
    /\ LuhnIdle
    /\ DetectIdle
    /\ MainIdle
    /\ WalkIdle
    /\ grown = 0

\* Lines 65-70 for a tree without files: the `if` is skipped and the empty
\* report is returned.
StartEmpty ==
    /\ pc = "start"
    /\ tree_files = {}
    /\ pc' = "returned"
    /\ UNCHANGED <<file_paths, file_paths_dict, flagged_files_report_dict,
                   file_scan_jobs, yielded, exc,
                   max_workers, env_vars,
                   harness_vars>>

\* Lines 65-69: the walk, the dict, the empty report, and the executor,
\* which sizes its pool from the machine's CPU count. No work is submitted yet.
Start ==
    /\ pc = "start"
    /\ tree_files # {}
    /\ file_paths = <<>>
    /\ \E order \in Orderings(tree_files) : file_paths' = order
    /\ file_paths_dict' = [p \in tree_files |-> NewFileInfo]
    /\ flagged_files_report_dict' = EmptyDict
    /\ \E size \in PoolSizes : max_workers' = size
    /\ UNCHANGED <<pc, file_scan_jobs, yielded, exc, env_vars, harness_vars>>

\* Line 70, one iteration of the comprehension: executor.submit queues
\* content_scan for the next path of file_paths and returns its future. The
\* workers run while the caller is still here.
Submit ==
    /\ pc = "start"
    /\ max_workers > 0
    /\ Cardinality(DOMAIN file_scan_jobs) < Len(file_paths)
    /\ LET file_path == file_paths[Cardinality(DOMAIN file_scan_jobs) + 1]
       IN  file_scan_jobs' =
               [p \in DOMAIN file_scan_jobs \cup {file_path} |->
                   IF p = file_path THEN PendingFuture ELSE file_scan_jobs[p]]
    /\ UNCHANGED <<pc, file_paths, file_paths_dict, flagged_files_report_dict,
                   yielded, exc, max_workers, env_vars,
                   harness_vars>>

\* Line 72: every path was submitted and as_completed is called, which starts
\* the 180 s.
AsCompleted ==
    /\ pc = "start"
    /\ max_workers > 0
    /\ Cardinality(DOMAIN file_scan_jobs) = Len(file_paths)
    /\ pc' = "collect"
    /\ UNCHANGED <<file_paths, file_paths_dict, flagged_files_report_dict,
                   file_scan_jobs, yielded, exc,
                   max_workers, env_vars,
                   harness_vars>>

\* The place of a submitted path in the executor's work queue: submit is called
\* in the order of file_paths.
Position(p) == CHOOSE i \in 1..Len(file_paths) : file_paths[i] = p

\* The work items queued before p's that no worker has marked running yet.
PendingAhead(p) ==
    Cardinality({q \in DOMAIN file_scan_jobs :
                    /\ file_scan_jobs[q].state = "PENDING"
                    /\ Position(q) < Position(p)})

\* Mutant: a queued work item starts whether or not a worker thread is free.
WorkerStartUnbounded(p) ==
    /\ pc \in {"start", "collect", "unwind"}
    /\ p \in DOMAIN file_scan_jobs
    /\ file_scan_jobs[p].state = "PENDING"
    /\ file_scan_jobs' = [file_scan_jobs EXCEPT ![p].state = "RUNNING"]
    /\ UNCHANGED <<pc, file_paths, file_paths_dict, flagged_files_report_dict,
                   yielded, exc, max_workers, env_vars,
                   harness_vars>>

\* A worker thread that took p's work item from the queue marks its future
\* running. The queue is first-in first-out and the pool has max_workers
\* threads, each running one item at a time: the threads that are not running
\* an item hold the oldest queued items, and mark them in any order.
WorkerStart(p) ==
    /\ pc \in {"start", "collect", "unwind"}
    /\ p \in DOMAIN file_scan_jobs
    /\ file_scan_jobs[p].state = "PENDING"
    /\ PendingAhead(p) + Cardinality(Running) < max_workers
    /\ file_scan_jobs' = [file_scan_jobs EXCEPT ![p].state = "RUNNING"]
    /\ UNCHANGED <<pc, file_paths, file_paths_dict, flagged_files_report_dict,
                   yielded, exc, max_workers, env_vars,
                   harness_vars>>

\* Mutant: a task whose extraction failed is queued again.
WorkerFinishRetry(p) ==
    /\ pc \in {"start", "collect", "unwind"}
    /\ p \in DOMAIN file_scan_jobs
    /\ file_scan_jobs[p].state = "RUNNING"
    /\ service[p].kind # "hangs"
    /\ LET r == content_scan(service[p])
       IN  file_scan_jobs' = [file_scan_jobs EXCEPT ![p] =
               IF r.parse_status = "NA"
               THEN PendingFuture
               ELSE [state |-> "FINISHED",
                     parse_status |-> r.parse_status,
                     parsed_content |-> r.parsed_content]]
    /\ UNCHANGED <<pc, file_paths, file_paths_dict, flagged_files_report_dict,
                   yielded, exc, max_workers, env_vars,
                   harness_vars>>

\* Mutant: the worker records the status in the file's findings itself.
WorkerFinishWritesFindings(p) ==
    /\ pc \in {"start", "collect", "unwind"}
    /\ p \in DOMAIN file_scan_jobs
    /\ file_scan_jobs[p].state = "RUNNING"
    /\ service[p].kind # "hangs"
    /\ LET r == content_scan(service[p])
       IN  /\ file_scan_jobs' = [file_scan_jobs EXCEPT ![p] =
                  [state |-> "FINISHED",
                   parse_status |-> r.parse_status,
                   parsed_content |-> r.parsed_content]]
           /\ file_paths_dict' = [file_paths_dict EXCEPT ![p].scanned = r.parse_status]
    /\ UNCHANGED <<pc, file_paths, flagged_files_report_dict,
                   yielded, exc, max_workers, env_vars,
                   harness_vars>>

\* content_scan returns in its worker thread and the future gets its result.
\* A call of parser.from_file that hangs never gets here.
WorkerFinish(p) ==
    /\ pc \in {"start", "collect", "unwind"}
    /\ p \in DOMAIN file_scan_jobs
    /\ file_scan_jobs[p].state = "RUNNING"
    /\ service[p].kind # "hangs"
    /\ LET r == content_scan(service[p])
       IN  file_scan_jobs' = [file_scan_jobs EXCEPT ![p] =
               [state |-> "FINISHED",
                parse_status |-> r.parse_status,
                parsed_content |-> r.parsed_content]]
    /\ UNCHANGED <<pc, file_paths, file_paths_dict, flagged_files_report_dict,
                   yielded, exc, max_workers, env_vars,
                   harness_vars>>

\* The 180 s elapse while as_completed is still being iterated.
DeadlinePasses ==
    /\ pc = "collect"
    /\ ~deadline_passed
    /\ deadline_passed' = TRUE
    /\ UNCHANGED <<tree_files, service, scan_vars, harness_vars>>

\* Lines 72-99: as_completed yields a finished future and the loop body runs
\* for it. A search that raises leaves the loop, and the function, at once.
Consume(p) ==
    /\ pc = "collect"
    /\ p \in Finished \ yielded
    /\ yielded' = yielded \cup {p}
    /\ LET content_scan_status == file_scan_jobs[p].parse_status
           file_content == file_scan_jobs[p].parsed_content
       IN  IF LoopBodyRaises(content_scan_status, file_content)
           THEN /\ file_paths_dict' =
                       [file_paths_dict EXCEPT ![p].scanned = content_scan_status]
                /\ exc' = "TypeError"
                /\ pc' = "unwind"
                /\ UNCHANGED flagged_files_report_dict
           ELSE LET file_info ==
                        FileInfoAfter(content_scan_status,
                                      IF content_scan_status = "Y"
                                      THEN FindingsOfServiceText[file_content]
                                      ELSE NoFindings)
                IN  /\ file_paths_dict' = [file_paths_dict EXCEPT ![p] = file_info]
                    /\ flagged_files_report_dict' =
                           ReportAfter(flagged_files_report_dict, p,
                                       FlagAfter(file_info), file_info)
                    /\ UNCHANGED <<pc, exc>>
    /\ UNCHANGED <<file_paths, file_scan_jobs, max_workers, env_vars,
                   harness_vars>>

\* Line 72: as_completed raises TimeoutError when the 180 s have elapsed and
\* futures are still to be yielded. Nothing in the function catches it.
Timeout ==
    /\ pc = "collect"
    /\ deadline_passed
    /\ Unyielded # {}
    /\ exc' = "TimeoutError"
    /\ pc' = "unwind"
    /\ UNCHANGED <<file_paths, file_paths_dict, flagged_files_report_dict,
                   file_scan_jobs, yielded, max_workers, env_vars,
                   harness_vars>>

\* Mutant: the function returns while futures are still to be yielded.
ReturnEarly ==
    /\ pc = "collect"
    /\ pc' = "returned"
    /\ UNCHANGED <<file_paths, file_paths_dict, flagged_files_report_dict,
                   file_scan_jobs, yielded, exc,
                   max_workers, env_vars,
                   harness_vars>>

\* Lines 69, 100: every future was yielded, the with block ends (its
\* shutdown has nothing to wait for) and the report is returned.
Return ==
    /\ pc = "collect"
    /\ Unyielded = {}
    /\ pc' = "returned"
    /\ UNCHANGED <<file_paths, file_paths_dict, flagged_files_report_dict,
                   file_scan_jobs, yielded, exc,
                   max_workers, env_vars,
                   harness_vars>>

\* Line 69: an exception leaves the with block; the executor's __exit__ is
\* shutdown(wait=True), which joins the workers, so the exception reaches the
\* caller only when every submitted task has finished.
Propagate ==
    /\ pc = "unwind"
    /\ Finished = DOMAIN file_scan_jobs
    /\ pc' = "raised"
    /\ UNCHANGED <<file_paths, file_paths_dict, flagged_files_report_dict,
                   file_scan_jobs, yielded, exc,
                   max_workers, env_vars,
                   harness_vars>>

Next ==
    \/ StartEmpty
    \/ Start
    \/ Submit
    \/ AsCompleted
    \/ \E p \in Paths : WorkerStart(p)
    \/ \E p \in Paths : WorkerFinish(p)
    \/ DeadlinePasses
    \/ \E p \in Paths : Consume(p)
    \/ Timeout
    \/ Return
    \/ Propagate

Spec == Init /\ [][Next]_vars

\* The threads are scheduled and time passes: no step stays enabled for ever
\* without being taken.
FairSpec ==
    /\ Spec
    /\ WF_vars(StartEmpty \/ Start \/ Submit \/ AsCompleted \/ Return \/ Propagate
                  \/ Timeout)
    /\ WF_vars(\E p \in Paths : Consume(p))
    /\ WF_vars(\E p \in Paths : WorkerStart(p))
    /\ WF_vars(\E p \in Paths : WorkerFinish(p))
    /\ WF_vars(DeadlinePasses)

\* ------------------------------------------------------------- the detectors on their own

InitLuhn ==
    /\ ScanIdle
    /\ DetectIdle
    /\ MainIdle
    /\ WalkIdle
    /\ sanitized_value \in LuhnSeeds
    /\ luhn_called = FALSE
    /\ luhn_ret = FALSE
    /\ grown = 0

\* The caller extends the digit string by one digit.
LuhnAppendDigit(d) ==
    /\ ~luhn_called
    /\ grown < MaxLuhnDigits
    /\ sanitized_value' = Append(sanitized_value, d)
    /\ grown' = grown + 1
    /\ UNCHANGED <<luhn_called, luhn_ret, detect_vars, env_vars, scan_vars,
                   outer_vars>>

\* luhn_checksum(sanitized_value) is called and returns.
LuhnCall ==
    /\ ~luhn_called
    /\ luhn_called' = TRUE
    /\ luhn_ret' = luhn_checksum(sanitized_value)
    /\ UNCHANGED <<sanitized_value, grown, detect_vars, env_vars, scan_vars,
                   outer_vars>>

NextLuhn ==
    \/ \E d \in Digit : LuhnAppendDigit(d)
    \/ LuhnCall

SpecLuhn == InitLuhn /\ [][NextLuhn]_vars

\* A card-like number: a prefix, a run of "1" and a last digit.
CardNumber(prefix, ones, last) == prefix \o Repeat(<<"1">>, ones) \o <<last>>

\* Luhn-valid numbers of 13 to 19 digits that start with 4.
ValidCardsByLength ==
    {CardNumber(<<"4">>, 11, "9"), CardNumber(<<"4">>, 12, "4"),
     CardNumber(<<"4">>, 13, "6"), CardNumber(<<"4">>, 14, "1"),
     CardNumber(<<"4">>, 15, "3"), CardNumber(<<"4">>, 16, "8"),
     CardNumber(<<"4">>, 17, "0")}

\* Luhn-valid 16-digit numbers, one per leading-digit class in and around
\* the classes of the pattern.
ValidCardsByPrefix ==
    {CardNumber(<<"5", "0">>, 13, "9"), CardNumber(<<"5", "1">>, 13, "8"),
     CardNumber(<<"5", "5">>, 13, "4"), CardNumber(<<"5", "6">>, 13, "3"),
     CardNumber(<<"6">>, 14, "6"), CardNumber(<<"1">>, 14, "7"),
     CardNumber(<<"3">>, 14, "3"), CardNumber(<<"2">>, 14, "5")}

\* "4111 1111 1111 1111"
CardSpacedText ==
    <<"4", "1", "1", "1", " ", "1", "1", "1", "1", " ", "1", "1", "1", "1",
      " ", "1", "1", "1", "1">>

\* "4111 111 111 1116": 13 digits in groups of 4, 3, 3, 3, Luhn-invalid
CardShortGroupsText ==
    <<"4", "1", "1", "1", " ", "1", "1", "1", " ", "1", "1", "1", " ", "1",
      "1", "1", "6">>

\* "123-45-6789"
SsnDashed ==
    <<"1", "2", "3", "-", "4", "5", "-", "6", "7", "8", "9">>

\* "123.45 6789"
SsnMixed ==
    <<"1", "2", "3", ".", "4", "5", " ", "6", "7", "8", "9">>

\* "123/45/6789"
SsnSlashed ==
    <<"1", "2", "3", "/", "4", "5", "/", "6", "7", "8", "9">>

\* "12-345-6789"
SsnMisgrouped ==
    <<"1", "2", "-", "3", "4", "5", "-", "6", "7", "8", "9">>

\* "4111111111111112 4111111111111111": a Luhn-invalid candidate, then a valid one
CardInvalidThenValidText == Card4111Invalid \o <<" ">> \o Card4111Valid

\* "4111111111111111 4111111111111112": a Luhn-valid candidate, then an invalid one
CardValidThenInvalidText == Card4111Valid \o <<" ">> \o Card4111Invalid

DetectSeeds ==
    ValidCardsByLength \cup ValidCardsByPrefix \cup
    {<<>>, SsnText, CardValidText, CardInvalidText, ProseText, CardSpacedText,
     CardShortGroupsText, SsnDashed, SsnMixed, SsnSlashed, SsnMisgrouped,
     CardInvalidThenValidText, CardValidThenInvalidText}

\* The characters a seed text is grown by.
GrowChars == {"1", "-", " ", ".", "x", "U+0661", "U+00E9"}

InitDetect ==
    /\ ScanIdle
    /\ LuhnIdle
    /\ MainIdle
    /\ WalkIdle
    /\ extracted_text \in DetectSeeds
    /\ scan_called = FALSE
    /\ found = NewFileInfo
    /\ grown = 0

\* The text gets one more character at its end.
TextAppend(c) ==
    /\ ~scan_called
    /\ grown < MaxGrow
    /\ extracted_text' = Append(extracted_text, c)
    /\ grown' = grown + 1
    /\ UNCHANGED <<scan_called, found, luhn_vars, env_vars, scan_vars,
                   outer_vars>>

\* The text gets one more character at its start.
TextPrepend(c) ==
    /\ ~scan_called
    /\ grown < MaxGrow
    /\ extracted_text' = <<c>> \o extracted_text
    /\ grown' = grown + 1
    /\ UNCHANGED <<scan_called, found, luhn_vars, env_vars, scan_vars,
                   outer_vars>>

\* Lines 81-94 run for a file whose content_scan returned ("Y", extracted_text).
DetectCall ==
    /\ ~scan_called
    /\ scan_called' = TRUE
    /\ found' = FileInfoAfter("Y", Findings(Str(extracted_text)))
    /\ UNCHANGED <<extracted_text, grown, luhn_vars, env_vars, scan_vars,
                   outer_vars>>

NextDetect ==
    \/ \E c \in GrowChars : TextAppend(c)
    \/ \E c \in GrowChars : TextPrepend(c)
    \/ DetectCall

SpecDetect == InitDetect /\ [][NextDetect]_vars

\* ------------------------------------------------------------- scan_directory_for_files

\* The root of the walked tree and the directories that may exist under it,
\* each with the names its sub-directories may have.
RootDir == "r"
ChildNames == [d \in {"r", "r/x", "r/x/y", "r/z"} |->
                  IF d = "r" THEN {"x", "z"} ELSE IF d = "r/x" THEN {"y"} ELSE {}]

\* os.path.join(top, dirname) of os.walk, and root + '/' + file of lines 40, 42.
PathJoin(top, name) == top \o "/" \o name

\* The directory sets with the root in which every directory has its parent.
TreeShapes ==
    {ds \in SUBSET DOMAIN ChildNames :
        /\ RootDir \in ds
        /\ \A d \in ds \ {RootDir} :
              \E parent \in ds : \E n \in ChildNames[parent] : d = PathJoin(parent, n)}

\* The directory listings over a shape: every directory lists the
\* sub-directories that exist and some files, MaxFiles files in all at most.
TreesOver(ds) ==
    {[d \in ds |-> [dirs |-> {n \in ChildNames[d] : PathJoin(d, n) \in ds},
                    files |-> placed[d]]] :
        placed \in {f \in [ds -> SUBSET Paths] :
                       Cardinality({<<d, n>> \in ds \X Paths : n \in f[d]}) <= MaxFiles}}

\* Mutant: the files of a directory replace the list instead of extending it.
ExtendFilesListOverwrite(files_so_far, root, files_list) ==
    IF files_list # <<>>
    THEN [i \in 1..Len(files_list) |-> PathJoin(root, files_list[i])]
    ELSE files_so_far

\* Lines 38-42: return_files_list after the loop body ran for one directory.
ExtendFilesList(files_so_far, root, files_list) ==
    IF files_list # <<>>
    THEN IF files_so_far = <<>>
         THEN [i \in 1..Len(files_list) |-> PathJoin(root, files_list[i])]
         ELSE files_so_far \o [i \in 1..Len(files_list) |-> PathJoin(root, files_list[i])]
    ELSE files_so_far

InitWalk ==
    /\ tree_files = {}
    /\ service = EmptyDict
    /\ ScanFresh
    /\ LuhnIdle
    /\ DetectIdle
    /\ MainIdle
    /\ grown = 0
    /\ \E ds \in TreeShapes : tree \in TreesOver(ds)
    /\ walk_stack = <<RootDir>>
    /\ return_files_list = <<>>
    /\ walk_pc = "walking"

\* Line 37 and lines 38-42: os.walk yields the next directory, top down, with
\* its files and sub-directories in the order the file system lists them, and
\* the loop body runs for it.
WalkStep ==
    /\ walk_pc = "walking"
    /\ walk_stack # <<>>
    /\ LET root == Head(walk_stack)
       IN  /\ \E files_list \in Orderings(tree[root].files) :
                 return_files_list' = ExtendFilesList(return_files_list, root, files_list)
           /\ \E subdirectories \in Orderings(tree[root].dirs) :
                 walk_stack' =
                     [i \in 1..Len(subdirectories) |-> PathJoin(root, subdirectories[i])]
                         \o Tail(walk_stack)
    /\ UNCHANGED <<tree, walk_pc, env_vars, scan_vars, luhn_vars, detect_vars, grown,
                   main_vars>>

\* Lines 43 and 65-69: the walk is over and the list is returned to
\* main_file_scan_interface, which builds its dict and, if the dict is not
\* empty, creates the executor; with an empty dict it returns the empty
\* report (line 100) and no executor exists.
WalkReturn ==
    /\ walk_pc = "walking"
    /\ walk_stack = <<>>
    /\ pc = "start"
    /\ walk_pc' = "returned"
    /\ file_paths' = return_files_list
    /\ LET keys == {return_files_list[i] : i \in 1..Len(return_files_list)}
       IN  /\ file_paths_dict' = [p \in keys |-> NewFileInfo]
           /\ flagged_files_report_dict' = EmptyDict
           /\ IF keys # {}
              THEN /\ \E size \in PoolSizes : max_workers' = size
                   /\ UNCHANGED pc
              ELSE /\ pc' = "returned"
                   /\ UNCHANGED max_workers
    /\ UNCHANGED <<tree, walk_stack, return_files_list, file_scan_jobs, yielded, exc,
                   env_vars, luhn_vars, detect_vars, grown, main_vars>>

NextWalk ==
    \/ WalkStep
    \/ WalkReturn

SpecWalk == InitWalk /\ [][NextWalk]_vars

\* ------------------------------------------------------------- the __main__ block

\* What the command line gives for scan_directory: nothing at all, the empty
\* string, a path that does not exist, a path of a regular file, a directory.
ScanArgs == {"absent", "", "missing", "file", "dir"}

\* What the command line gives for -o: nothing (the default os.getcwd()), the
\* empty string, a path that does not exist, a regular file, a directory.
OutputArgs == {"cwd", "", "missing", "file", "dir"}

\* os.path.isdir of an argument.
isdir(arg) == arg \in {"dir", "cwd"}

\* Mutant: the output directory is not validated.
StartupErrorNoOutputCheck(scan_arg, output_arg) ==
    IF scan_arg = "absent" THEN "usage: error: the following arguments are required"
    ELSE IF scan_arg = "" \/ ~isdir(scan_arg) THEN "Invalid scan directory"
    ELSE "none"

\* Lines 108-112: the message the program exits with before it scans, "none"
\* when the arguments pass. parse_args rejects a missing positional argument.
StartupError(scan_arg, output_arg) ==
    IF scan_arg = "absent" THEN "usage: error: the following arguments are required"
    ELSE IF scan_arg = "" \/ ~isdir(scan_arg) THEN "Invalid scan directory"
    ELSE IF output_arg # "" /\ ~isdir(output_arg) THEN "Output directory is invalid"
    ELSE "none"

\* The exit status of an exit at startup: argparse exits with 2, sys.exit
\* with a message exits with 1.
StartupExitStatus(error) ==
    IF error = "usage: error: the following arguments are required" THEN 2 ELSE 1

\* What opening and writing the report file can do: succeed, raise in open
\* (the directory is not writable), or raise while json.dump is writing.
WriteOutcomes == {"ok", "open raises", "dump raises"}

\* The extraction outcomes that make the four endings of a run: a flagged
\* file, no finding, a search that raises, and a call that outlasts the 180 s.
MainServiceOutcomes ==
    {Response(200, Str(SsnText)),
     Response(200, Str(ProseText)),
     Response(200, Bytes(SsnText)),
     Hangs}

InitMain ==
    /\ tree_files \in SUBSET Paths
    /\ service \in [tree_files -> MainServiceOutcomes]
    /\ ScanFresh
    /\ LuhnIdle
    /\ DetectIdle
    /\ grown = 0
    /\ scan_directory \in ScanArgs
    /\ output_directory \in OutputArgs
    /\ main_pc = "parse"
    /\ exit_status = -1
    /\ emitted = <<>>
    /\ report_file = [state |-> "none", content |-> EmptyDict]
    /\ WalkIdle

\* Lines 104-113: the arguments are parsed and validated; the program exits
\* with a message or announces the scan.
MainStartup ==
    /\ main_pc = "parse"
    /\ LET error == StartupError(scan_directory, output_directory)
       IN  IF error # "none"
           THEN /\ emitted' = Append(emitted, error)
                /\ exit_status' = StartupExitStatus(error)
                /\ main_pc' = "exited"
           ELSE /\ emitted' = Append(emitted, "Scanning Directory")
                /\ main_pc' = "scan"
                /\ UNCHANGED exit_status
    /\ UNCHANGED <<scan_directory, output_directory, report_file,
                   env_vars, scan_vars, luhn_vars, detect_vars, grown,
                   walk_vars>>

\* Line 114: main_file_scan_interface runs.
MainScan ==
    /\ main_pc = "scan"
    /\ Next

\* Lines 115-123: main_file_scan_interface has returned its report.
MainReport ==
    /\ main_pc = "scan"
    /\ pc = "returned"
    /\ main_pc' = "exited"
    /\ IF flagged_files_report_dict # EmptyDict
       THEN \E outcome \in WriteOutcomes :
               /\ emitted' = emitted \o
                      <<"Finished scan", "Found PII in files. Outputting Report">> \o
                      (IF outcome = "ok" THEN <<>> ELSE <<"Traceback">>)
               /\ report_file' =
                      IF outcome = "ok"
                      THEN [state |-> "complete", content |-> flagged_files_report_dict]
                      ELSE IF outcome = "dump raises"
                      THEN [state |-> "partial", content |-> EmptyDict]
                      ELSE report_file
               /\ exit_status' = IF outcome = "ok" THEN 0 ELSE 1
       ELSE /\ emitted' = emitted \o <<"Finished scan", "Found no PII in any files!">>
            /\ exit_status' = 0
            /\ UNCHANGED report_file
    /\ UNCHANGED <<scan_directory, output_directory,
                   env_vars, scan_vars, luhn_vars, detect_vars, grown,
                   walk_vars>>

\* Line 114: main_file_scan_interface raised; nothing in the block catches
\* it, so the interpreter prints the traceback and exits with status 1.
MainUncaught ==
    /\ main_pc = "scan"
    /\ pc = "raised"
    /\ main_pc' = "exited"
    /\ emitted' = Append(emitted, "Traceback")
    /\ exit_status' = 1
    /\ UNCHANGED <<scan_directory, output_directory, report_file,
                   env_vars, scan_vars, luhn_vars, detect_vars, grown,
                   walk_vars>>

NextMain ==
    \/ MainStartup
    \/ MainScan
    \/ MainReport
    \/ MainUncaught

SpecMain == InitMain /\ [][NextMain]_vars

\* ------------------------------------------------------------- C7

\* The reference Luhn algorithm: position k counts from the rightmost digit
\* (k = 0); digits at odd k are doubled and replaced by their digit sum.
DecimalDigitSum(v) == (v \div 10) + (v % 10)

RECURSIVE ReferenceLuhnTotal(_, _)
ReferenceLuhnTotal(s, k) ==
    IF k >= Len(s) THEN 0
    ELSE LET d == IntOfDigit(s[Len(s) - k])
         IN  (IF k % 2 = 1 THEN DecimalDigitSum(2 * d) ELSE d)
                 + ReferenceLuhnTotal(s, k + 1)

ReferenceLuhn(s) == ReferenceLuhnTotal(s, 0) % 10 = 0

\* C7: luhn_checksum returns true exactly when the reference Luhn total of the
\* digit string is 0 mod 10; "4111111111111111" is valid and
\* "4111111111111112" is invalid.
C7_LuhnAgreesWithReference ==
    luhn_called =>
        /\ luhn_ret = ReferenceLuhn(sanitized_value)
        /\ (sanitized_value = Card4111Valid => luhn_ret = TRUE)
        /\ (sanitized_value = Card4111Invalid => luhn_ret = FALSE)

\* Witness: the checksum came out valid for a three-digit string whose
\* doubled digit exceeds 9.
C7_Witness ==
    /\ luhn_called
    /\ luhn_ret = TRUE
    /\ Len(sanitized_value) = 3
    /\ IntOfDigit(sanitized_value[2]) > 4

\* ------------------------------------------------------------- C1

\* C1: when the scan budget elapses while tasks are still incomplete, the
\* function still returns its report and no exception is on its way to the
\* caller.
C1_TimeoutStillReturnsReport ==
    (deadline_passed /\ Finished # DOMAIN file_scan_jobs) => exc # "TimeoutError"

\* ------------------------------------------------------------- C2

\* C2: every discovered path whose task completed and was handed to the loop
\* is a key of the report if and only if one of its two flags is true; no key
\* of the report is outside the discovered list.
C2_ReportMembership ==
    /\ \A p \in yielded :
          (p \in DOMAIN flagged_files_report_dict) <=>
              (file_paths_dict[p].social_security_found
                  \/ file_paths_dict[p].credit_card_found)
    /\ DOMAIN flagged_files_report_dict \subseteq {file_paths[i] : i \in 1..Len(file_paths)}
    /\ DOMAIN flagged_files_report_dict \subseteq yielded

\* Witness: the function returned a report that holds one discovered file
\* and leaves another one out.
C2_Witness ==
    /\ pc = "returned"
    /\ \E p, q \in yielded :
          /\ p \in DOMAIN flagged_files_report_dict
          /\ q \notin DOMAIN flagged_files_report_dict

\* ------------------------------------------------------------- C3

\* The extraction of a file fails: the service call raises, or answers with a
\* status that is neither 200 nor 204.
ExtractionFails(outcome) ==
    \/ outcome.kind = "raises"
    \/ outcome.kind = "returns" /\ outcome.status \notin {200, 204}

\* The text the detectors are to see for an outcome: only a 200 answer with
\* non-empty text is Extracted.
IsExtracted(outcome) ==
    /\ outcome.kind = "returns"
    /\ outcome.status = 200
    /\ Truthy(outcome.content)

\* What a file's own extraction outcome alone says its flags are.
OwnFindings ==
    [o \in ServiceOutcomes |->
        IF IsExtracted(o) /\ o.content.type = "str"
        THEN [ssn |-> social_security_search(o.content.chars),
              card |-> LET m == weak_credit_card_search(o.content.chars)
                       IN  m.matched /\ luhn_checksum(SanitizeCandidate(m.group0))]
        ELSE [ssn |-> FALSE, card |-> FALSE]]

\* The file whose search raised: extracted, but not a str.
SearchFails(outcome) == IsExtracted(outcome) /\ outcome.content.type # "str"

\* C3: a file whose extraction raises or fails never aborts the function and
\* never gets flags or a report entry; the flags and the report membership of
\* every other file are what its own extraction outcome alone gives.
C3_ExtractionIsolation ==
    /\ \A p \in Finished :
          service[p].kind = "raises" => file_scan_jobs[p].parse_status = "NA"
    /\ exc = "TypeError" =>
          \E p \in yielded : ~ExtractionFails(service[p]) /\ SearchFails(service[p])
    /\ \A p \in yielded :
          ExtractionFails(service[p]) =>
              /\ p \notin DOMAIN flagged_files_report_dict
              /\ ~file_paths_dict[p].social_security_found
              /\ ~file_paths_dict[p].credit_card_found
    /\ \A p \in yielded :
          (~ExtractionFails(service[p]) /\ ~SearchFails(service[p])) =>
              /\ file_paths_dict[p].social_security_found = OwnFindings[service[p]].ssn
              /\ file_paths_dict[p].credit_card_found = OwnFindings[service[p]].card
              /\ (p \in DOMAIN flagged_files_report_dict) <=>
                     (OwnFindings[service[p]].ssn \/ OwnFindings[service[p]].card)

\* Witness: the function returned after the loop handled a file whose
\* extraction raised and a flagged file.
C3_Witness ==
    /\ pc = "returned"
    /\ \E p, q \in yielded :
          /\ service[p].kind = "raises"
          /\ q \in DOMAIN flagged_files_report_dict

\* ------------------------------------------------------------- C4

\* C4: a file whose detection step raises ends with status Failed ("NA") and
\* both flags false, and the exception does not leave the loop.
C4_DetectorFailureContained ==
    \A p \in yielded :
        SearchFails(service[p]) =>
            /\ file_paths_dict[p].scanned = "NA"
            /\ ~file_paths_dict[p].social_security_found
            /\ ~file_paths_dict[p].credit_card_found
            /\ exc = "None"

\* ------------------------------------------------------------- C5

\* C5: with an extraction call that never returns, the function still
\* returns once the budget has elapsed.
C5_ReturnsDespiteStuckExtraction ==
    (pc = "collect" /\ \E p \in tree_files : service[p].kind = "hangs")
        ~> (pc = "returned")

\* ------------------------------------------------------------- C6

\* The digits of a candidate: '-' and ' ' taken out.
StripSeparators(s) == SelectSeq(s, LAMBDA c : c \notin {"-", " "})

\* A string of digits only.
AllDigits(s) == \A i \in 1..Len(s) : s[i] \in Digit

\* The leading-digit classes the claim names: 4, 51-55, 6, 1, 3.
ClaimedPrefix(d) ==
    /\ Len(d) >= 2
    /\ \/ d[1] \in {"4", "6", "1", "3"}
       \/ d[1] = "5" /\ d[2] \in {"1", "2", "3", "4", "5"}

\* The text holds, between two non-word neighbours, a run of digits of 13 to
\* 19 digits in the claimed prefix classes with a valid Luhn checksum.
HoldsValidCardNumber(t) ==
    \E i \in 1..Len(t) : \E n \in 13..19 :
        /\ i + n - 1 <= Len(t)
        /\ ~IsWordChar(CharAt(t, i - 1))
        /\ ~IsWordChar(CharAt(t, i + n))
        /\ AllDigits(SubSeq(t, i, i + n - 1))
        /\ ClaimedPrefix(SubSeq(t, i, i + n - 1))
        /\ ReferenceLuhn(SubSeq(t, i, i + n - 1))

\* C6: a text that holds a Luhn-valid number of 13 to 19 digits in
\* the prefix classes is reported found, and a text whose syntactic candidate
\* is Luhn-invalid is reported not-found.
C6_CardDetector13To19 ==
    scan_called =>
        /\ HoldsValidCardNumber(extracted_text) => found.credit_card_found
        /\ LET m == weak_credit_card_search(extracted_text)
           IN  (m.matched /\ ~ReferenceLuhn(StripSeparators(m.group0)))
                   => ~found.credit_card_found

\* ------------------------------------------------------------- C8

\* The class of a character in the shape of a social security number.
ShapeOf(c) ==
    IF c \in AsciiDigit THEN "d" ELSE IF c \in {"-", ".", " "} THEN "s" ELSE "o"

SsnShape == <<"d", "d", "d", "s", "d", "d", "s", "d", "d", "d", "d">>

\* A 3-2-4 digit group with single separators starts at index i.
GroupAt(t, i) ==
    /\ i + 10 <= Len(t)
    /\ [k \in 1..11 |-> ShapeOf(t[i + k - 1])] = SsnShape

\* C8 as stated: found exactly when the text holds a 3-2-4 group that is not
\* part of a longer run of digits.
C8_SsnNotInDigitRun ==
    scan_called =>
        (found.social_security_found <=>
            \E i \in 1..Len(extracted_text) :
                /\ GroupAt(extracted_text, i)
                /\ CharAt(extracted_text, i - 1) \notin Digit
                /\ CharAt(extracted_text, i + 11) \notin Digit)

\* C8 as amended: found exactly when the text holds a 3-2-4 group of ASCII
\* digits whose neighbours on both sides are not word characters (no letter,
\* digit or other alphanumeric of any script and no underscore touches it).
C8_SsnWholeWord ==
    scan_called =>
        (found.social_security_found <=>
            \E i \in 1..Len(extracted_text) :
                /\ GroupAt(extracted_text, i)
                /\ CharAt(extracted_text, i - 1) \notin WordChars
                /\ CharAt(extracted_text, i + 11) \notin WordChars)

\* Witness: the detectors found a social security number in a text in which
\* the group is followed by more text.
C8_Witness ==
    /\ scan_called
    /\ found.social_security_found
    /\ Len(extracted_text) = 13
    /\ GroupAt(extracted_text, 1)

\* ------------------------------------------------------------- C9

\* The tri-state mapping of the extraction client as the claim states it.
TriState(outcome) ==
    IF outcome.kind = "returns" /\ outcome.status = 200 /\ Truthy(outcome.content)
    THEN "Y"
    ELSE IF /\ outcome.kind = "returns"
            /\ \/ outcome.status = 204
               \/ outcome.status = 200 /\ ~Truthy(outcome.content)
    THEN "N"
    ELSE "NA"

\* C9: content_scan returns "Y" exactly for status 200 with non-empty
\* content, "N" exactly for status 204 or status 200 with empty content, and
\* "NA" for every other status and for every exception.
C9_TriStateMapping ==
    \A p \in Finished : file_scan_jobs[p].parse_status = TriState(service[p])

\* ------------------------------------------------------------- C10

\* The report the tree and the extraction outcomes alone determine.
YesNo(b) == IF b THEN "Yes" ELSE "No"

ExpectedReport ==
    [p \in {q \in tree_files :
                OwnFindings[service[q]].ssn \/ OwnFindings[service[q]].card} |->
        [credit_card_found |-> YesNo(OwnFindings[service[p]].card),
         social_security_found |-> YesNo(OwnFindings[service[p]].ssn)]]

\* C10: whatever order the walker enumerated the files in and whatever order
\* the tasks completed in, the returned report is the one the tree and the
\* extraction outcomes determine.
C10_ReportDeterminism ==
    pc = "returned" => flagged_files_report_dict = ExpectedReport

\* Witness: the function returned a report with two entries after the walker
\* listed the files in the reverse of their name order.
C10_Witness ==
    /\ pc = "returned"
    /\ Len(file_paths) >= 2
    /\ file_paths[1] = "b.txt"
    /\ file_paths[2] = "a.txt"
    /\ Cardinality(DOMAIN flagged_files_report_dict) = 2
    /\ flagged_files_report_dict["a.txt"] # flagged_files_report_dict["b.txt"]

\* ------------------------------------------------------------- C11

\* C11: every entry of the report has exactly the fields credit_card_found
\* and social_security_found, each "Yes" or "No", "Yes" exactly when the
\* file's flag is true, and at least one is "Yes"; a file with the text
\* "SSN: 123-45-6789" gets social_security_found "Yes" and credit_card_found
\* "No", and a file with "4111-1111-1111-1112" or with plain prose is absent.
C11_ReportEntryPresentation ==
    /\ \A p \in DOMAIN flagged_files_report_dict :
          LET entry == flagged_files_report_dict[p]
          IN  /\ DOMAIN entry = {"credit_card_found", "social_security_found"}
              /\ entry.credit_card_found \in {"Yes", "No"}
              /\ entry.social_security_found \in {"Yes", "No"}
              /\ (entry.credit_card_found = "Yes")
                     <=> file_paths_dict[p].credit_card_found
              /\ (entry.social_security_found = "Yes")
                     <=> file_paths_dict[p].social_security_found
              /\ "Yes" \in {entry.credit_card_found, entry.social_security_found}
    /\ \A p \in yielded :
          /\ service[p] = Response(200, Str(SsnText)) =>
                /\ p \in DOMAIN flagged_files_report_dict
                /\ flagged_files_report_dict[p] =
                       [credit_card_found |-> "No", social_security_found |-> "Yes"]
          /\ service[p] \in {Response(200, Str(CardInvalidText)),
                             Response(200, Str(ProseText))} =>
                p \notin DOMAIN flagged_files_report_dict

\* Witness: the function returned a report whose only entry is the file with
\* the social security number, after also handling the file with the
\* Luhn-invalid card number.
C11_Witness ==
    /\ pc = "returned"
    /\ \E p, q \in yielded :
          /\ service[p] = Response(200, Str(SsnText))
          /\ service[q] = Response(200, Str(CardInvalidText))
          /\ DOMAIN flagged_files_report_dict = {p}

\* ------------------------------------------------------------- C12

\* The worker pool on a tree of MaxPoolFiles files, more than the smallest pool
\* has workers. The state after lines 65-69: the walk listed the files, the
\* dict and the empty report exist, the executor was created and nothing is
\* submitted yet. Every extraction answers.
PoolPaths == {PathNames[i] : i \in 1..MaxPoolFiles}

InitPool ==
    /\ tree_files = PoolPaths
    /\ service = [p \in PoolPaths |-> Response(200, Str(ProseText))]
    /\ deadline_passed = FALSE
    /\ pc = "start"
    /\ file_paths = [i \in 1..MaxPoolFiles |-> PathNames[i]]
    /\ file_paths_dict = [p \in PoolPaths |-> NewFileInfo]
    /\ flagged_files_report_dict = EmptyDict
    /\ file_scan_jobs = EmptyDict
    /\ yielded = {}
    /\ exc = "None"
    /\ max_workers \in PoolSizes
    /\ LuhnIdle
    /\ DetectIdle
    /\ MainIdle
    /\ WalkIdle
    /\ grown = 0

NextPool ==
    \/ Submit
    \/ AsCompleted
    \/ \E p \in PoolPaths : WorkerStart(p)
    \/ \E p \in PoolPaths : WorkerFinish(p)
    \/ DeadlinePasses
    \/ \E p \in PoolPaths : Consume(p)
    \/ Timeout
    \/ Return
    \/ Propagate

SpecPool == InitPool /\ [][NextPool]_vars

\* C12: the number of tasks running content_scan at the same time never
\* exceeds the size of the worker pool, however many files were discovered;
\* a discovered file has at most one task, and a task that is neither running
\* nor finished waits as PENDING.
C12_BoundedConcurrency ==
    /\ Cardinality(Running) <= max_workers
    /\ max_workers \in PoolSizes
    /\ DOMAIN file_scan_jobs \subseteq tree_files
    /\ \A p \in DOMAIN file_scan_jobs :
          file_scan_jobs[p].state \in {"PENDING", "RUNNING", "FINISHED"}
    /\ \A p \in DOMAIN file_scan_jobs :
          (file_scan_jobs[p].state = "PENDING" /\ PendingAhead(p) = 0 /\ pc # "raised")
              => (Cardinality(Running) < max_workers <=> ENABLED WorkerStart(p))

\* Witness: every worker of the pool is busy while a submitted task is still
\* PENDING, more files having been discovered than the pool has workers.
C12_Witness ==
    /\ Cardinality(Running) = max_workers
    /\ Cardinality(tree_files) > max_workers
    /\ \E p \in DOMAIN file_scan_jobs : file_scan_jobs[p].state = "PENDING"

\* ------------------------------------------------------------- C13

\* The arguments the claim calls invalid: the scan directory is missing or is
\* not a directory, or the output directory is given and is not a directory.
\* An output directory given as the empty string is given and is no directory.
InvalidArgumentsAsStated ==
    \/ scan_directory \in {"absent", "", "missing", "file"}
    \/ output_directory \in {"", "missing", "file"}

\* The same without the output directory given as the empty string.
InvalidArguments ==
    \/ scan_directory \in {"absent", "", "missing", "file"}
    \/ output_directory \in {"missing", "file"}

\* The walker has not run, no executor exists, no task was submitted, and a
\* program that has exited did so with a non-zero status and one message.
StoppedAtStartup ==
    /\ pc = "start"
    /\ file_paths = <<>>
    /\ file_scan_jobs = EmptyDict
    /\ max_workers = 0
    /\ main_pc \in {"parse", "exited"}
    /\ main_pc = "exited" =>
          /\ exit_status > 0
          /\ Len(emitted) = 1
          /\ emitted[1] \in {"usage: error: the following arguments are required",
                             "Invalid scan directory",
                             "Output directory is invalid"}

\* C13 as stated: with invalid arguments, an output directory that is given
\* and is not a directory included, the program exits with a non-zero status
\* and a message, and the walker never runs and no task is ever submitted.
C13_StartupValidationAsStated ==
    InvalidArgumentsAsStated => StoppedAtStartup

\* C13 as amended: the same for every invalid argument except an output
\* directory given as the empty string; with -o '' and a scan directory that
\* is a directory the program passes the checks and starts scanning.
C13_StartupValidationFirst ==
    /\ InvalidArguments => StoppedAtStartup
    /\ (scan_directory = "dir" /\ output_directory = "" /\ main_pc # "parse") =>
          /\ Len(emitted) > 0
          /\ emitted[1] = "Scanning Directory"

\* Witness: the program has exited with status 1 over the output directory
\* alone, the scan directory being a directory with files.
C13_Witness ==
    /\ main_pc = "exited"
    /\ scan_directory = "dir"
    /\ output_directory = "file"
    /\ tree_files # {}
    /\ exit_status = 1
    /\ emitted = <<"Output directory is invalid">>

\* ------------------------------------------------------------- C14

\* C14: a run that started scanning ends either with the complete report
\* written (exactly when the report is non-empty) or with no file and the
\* clean-scan message; never with a partial report or as a failed run.
C14_ReportOrCleanScan ==
    (main_pc = "exited" /\ Len(emitted) > 0 /\ emitted[1] = "Scanning Directory") =>
        /\ pc = "returned"
        /\ exit_status = 0
        /\ IF flagged_files_report_dict # EmptyDict
           THEN report_file = [state |-> "complete",
                               content |-> flagged_files_report_dict]
           ELSE /\ report_file.state = "none"
                /\ emitted[Len(emitted)] = "Found no PII in any files!"

\* ------------------------------------------------------------- C15

\* C15: the report is handed to the caller only after every submitted task
\* has finished and has been consumed by the loop, and no entry is added to
\* the report once it has been returned.
C15_FanInBeforeReturn ==
    /\ [](pc = "returned" =>
             /\ DOMAIN file_scan_jobs = tree_files
             /\ Finished = DOMAIN file_scan_jobs
             /\ yielded = DOMAIN file_scan_jobs)
    /\ [][pc = "returned" =>
             /\ pc' = "returned"
             /\ flagged_files_report_dict' = flagged_files_report_dict
             /\ file_paths_dict' = file_paths_dict]_vars

\* Witness: the function returned a non-empty report after consuming the
\* results of two tasks.
C15_Witness ==
    /\ pc = "returned"
    /\ Cardinality(yielded) >= 2
    /\ flagged_files_report_dict # EmptyDict

\* ------------------------------------------------------------- C16

\* The position of a future in Pending -> Extracting -> extracted.
TaskRank(future) ==
    CASE future.state = "PENDING" -> 1
      [] future.state = "RUNNING" -> 2
      [] future.state = "FINISHED" -> 3

\* The report entry of a path, "absent" when it has none.
EntryOf(report, p) == IF p \in DOMAIN report THEN report[p] ELSE "absent"

\* C16: every discovered path has one task; in every step a task keeps its
\* place or moves one place forward (PENDING, RUNNING, FINISHED), a finished
\* future never changes, a result is consumed only when its task has
\* finished, and a consumed file stays consumed with its findings and its
\* report entry unchanged.
C16_TaskStateMachine ==
    /\ [](/\ \A i, j \in 1..Len(file_paths) : file_paths[i] = file_paths[j] => i = j
          /\ DOMAIN file_scan_jobs \subseteq {file_paths[i] : i \in 1..Len(file_paths)}
          /\ yielded \subseteq Finished)
    /\ [][\A p \in DOMAIN file_scan_jobs :
             /\ p \in DOMAIN file_scan_jobs'
             /\ TaskRank(file_scan_jobs'[p]) \in
                    {TaskRank(file_scan_jobs[p]), TaskRank(file_scan_jobs[p]) + 1}
             /\ file_scan_jobs[p].state = "FINISHED" =>
                    file_scan_jobs'[p] = file_scan_jobs[p]
             /\ p \in yielded =>
                    /\ p \in yielded'
                    /\ file_paths_dict'[p] = file_paths_dict[p]
                    /\ EntryOf(flagged_files_report_dict', p) =
                           EntryOf(flagged_files_report_dict, p)]_vars

\* Witness: one task is done and consumed while another one is extracting.
C16_Witness ==
    \E p, q \in DOMAIN file_scan_jobs :
        /\ p \in yielded
        /\ file_scan_jobs[q].state = "RUNNING"

\* ------------------------------------------------------------- C17

\* The futures whose state a step changes.
ChangedFutures ==
    {p \in DOMAIN file_scan_jobs \cap DOMAIN file_scan_jobs' :
        file_scan_jobs'[p] # file_scan_jobs[p]}

\* C17: a step of a worker changes one future, gives it the result of
\* content_scan for its own file, and writes neither the report nor any
\* findings record; once the executor exists the report and the findings are
\* written only by the step of the loop that consumes a result, which writes
\* only that file's record and entry, so no entry is lost.
C17_SingleWriter ==
    [][/\ ChangedFutures # {} =>
             /\ Cardinality(ChangedFutures) = 1
             /\ file_paths_dict' = file_paths_dict
             /\ flagged_files_report_dict' = flagged_files_report_dict
             /\ yielded' = yielded
             /\ \A p \in ChangedFutures :
                   file_scan_jobs'[p].state = "FINISHED" =>
                       /\ file_scan_jobs'[p].parse_status =
                              content_scan(service[p]).parse_status
                       /\ file_scan_jobs'[p].parsed_content =
                              content_scan(service[p]).parsed_content
       /\ (max_workers # 0 /\ <<file_paths_dict, flagged_files_report_dict>>' #
                               <<file_paths_dict, flagged_files_report_dict>>) =>
             \E p \in yielded' \ yielded :
                 /\ yielded' = yielded \cup {p}
                 /\ \A q \in DOMAIN file_paths_dict \ {p} :
                       /\ file_paths_dict'[q] = file_paths_dict[q]
                       /\ EntryOf(flagged_files_report_dict', q) =
                              EntryOf(flagged_files_report_dict, q)]_vars

\* Witness: the loop has put one file into the report while a worker is
\* still extracting another file.
C17_Witness ==
    /\ pc = "collect"
    /\ flagged_files_report_dict # EmptyDict
    /\ Running # {}

\* ------------------------------------------------------------- C18

\* C18: a file whose extraction status is "N" or "NA" keeps both flags false
\* and is never in the report, whatever its text holds.
C18_DetectionGating ==
    \A p \in yielded :
        file_scan_jobs[p].parse_status \in {"N", "NA"} =>
            /\ file_paths_dict[p].scanned = file_scan_jobs[p].parse_status
            /\ ~file_paths_dict[p].credit_card_found
            /\ ~file_paths_dict[p].social_security_found
            /\ p \notin DOMAIN flagged_files_report_dict

\* Witness: the function returned after handling a file with status "NA" and
\* a file with status "N" whose texts both hold a social security number.
C18_Witness ==
    /\ pc = "returned"
    /\ \E p, q \in yielded :
          /\ service[p] = Response(500, Str(SsnText))
          /\ service[q] = Response(204, Str(SsnText))
          /\ file_paths_dict[p].scanned = "NA"
          /\ file_paths_dict[q].scanned = "N"

\* ------------------------------------------------------------- C19

\* The leftmost syntactic candidate of the text starts at index i.
FirstCandidateAt(t, i) ==
    /\ CardMatchAt(t, i).matched
    /\ \A j \in 1..(i - 1) : ~CardMatchAt(t, j).matched

\* C19: credit_card_found is true if and only if the leftmost match of the
\* pattern, with '-' and ' ' removed, has a valid Luhn checksum; a candidate
\* further right never changes the result.
C19_LeftmostCandidateOnly ==
    scan_called =>
        (found.credit_card_found <=>
            \E i \in 1..Len(extracted_text) :
                /\ FirstCandidateAt(extracted_text, i)
                /\ ReferenceLuhn(StripSeparators(CardMatchAt(extracted_text, i).group0)))

\* Witness: the detectors reported no credit card for a text whose first
\* candidate is Luhn-invalid and which holds a Luhn-valid candidate further
\* right.
C19_Witness ==
    /\ scan_called
    /\ ~found.credit_card_found
    /\ \E i, j \in 1..Len(extracted_text) :
          /\ i < j
          /\ FirstCandidateAt(extracted_text, i)
          /\ CardMatchAt(extracted_text, j).matched
          /\ ReferenceLuhn(StripSeparators(CardMatchAt(extracted_text, j).group0))

\* ------------------------------------------------------------- C20

\* The files of the tree: a directory and a file name it lists.
TreeEntries ==
    {e \in (DOMAIN tree) \X Paths : e[2] \in tree[e[1]].files}

\* C20: the list scan_directory_for_files returns holds the path of every
\* file of the tree, at any depth, exactly once and nothing else; a tree
\* without files gives the empty list, no task is submitted and the report
\* is empty.
C20_WalkerCompleteness ==
    walk_pc = "returned" =>
        /\ {return_files_list[i] : i \in 1..Len(return_files_list)} =
               {PathJoin(e[1], e[2]) : e \in TreeEntries}
        /\ Len(return_files_list) = Cardinality(TreeEntries)
        /\ \A i, j \in 1..Len(return_files_list) :
              return_files_list[i] = return_files_list[j] => i = j
        /\ file_paths = return_files_list
        /\ TreeEntries = {} =>
              /\ return_files_list = <<>>
              /\ file_scan_jobs = EmptyDict
              /\ pc = "returned"
              /\ flagged_files_report_dict = EmptyDict

\* Witness: the walk returned two paths from a tree whose root and whose
\* directory r/x list no file, one file lying two levels down.
C20_Witness ==
    /\ walk_pc = "returned"
    /\ Len(return_files_list) = 2
    /\ DOMAIN tree = {"r", "r/x", "r/x/y", "r/z"}
    /\ tree["r"].files = {}
    /\ tree["r/x"].files = {}
    /\ tree["r/x/y"].files # {}
    /\ tree["r/z"].files # {}

====
